---------------------------- MODULE Spec2Model ----------------------------
(***************************************************************************)
(* PdfDocxGenerator.to_docx of ai_resume_builder, in its two variants      *)
(* (src/core and src/backend/src/core): the line scan over the resume      *)
(* markup, the classification of each line and the styled blocks appended  *)
(* to the document.  Text is a sequence of one-character strings, so that  *)
(* strip, replace, split, startswith, `in` and upper are computed as       *)
(* Python computes them.                                                   *)
(***************************************************************************)
EXTENDS Integers, Sequences, FiniteSets, TLC

(***************************************************************************)
(* Python str operations on sequences of characters.                       *)
(***************************************************************************)
StartsWith(s, p) ==
    /\ Len(p) <= Len(s)
    /\ SubSeq(s, 1, Len(p)) = p

EndsWith(s, p) ==
    /\ Len(p) <= Len(s)
    /\ SubSeq(s, Len(s) - Len(p) + 1, Len(s)) = p

\* `p in s`
Contains(s, p) ==
    \E k \in 1..(Len(s) - Len(p) + 1) : SubSeq(s, k, k + Len(p) - 1) = p

RECURSIVE LStrip(_)
LStrip(s) ==
    IF s # <<>> /\ Head(s) \in {" ", "\n"} THEN LStrip(Tail(s)) ELSE s

RECURSIVE RStrip(_)
RStrip(s) ==
    IF s # <<>> /\ s[Len(s)] \in {" ", "\n"}
    THEN RStrip(SubSeq(s, 1, Len(s) - 1))
    ELSE s

\* s.strip()
Strip(s) == RStrip(LStrip(s))

\* s.replace(p, r): every non-overlapping occurrence, left to right
RECURSIVE Replace(_, _, _)
Replace(s, p, r) ==
    IF Len(s) < Len(p) THEN s
    ELSE IF StartsWith(s, p)
         THEN r \o Replace(SubSeq(s, Len(p) + 1, Len(s)), p, r)
         ELSE <<Head(s)>> \o Replace(Tail(s), p, r)

\* position of the first occurrence of p in s, 0 when there is none
FindFirst(s, p) ==
    IF Contains(s, p)
    THEN CHOOSE k \in 1..(Len(s) - Len(p) + 1) :
            /\ SubSeq(s, k, k + Len(p) - 1) = p
            /\ \A j \in 1..(k - 1) : SubSeq(s, j, j + Len(p) - 1) # p
    ELSE 0

\* s.split(sep): the list of pieces between the occurrences of sep
RECURSIVE Split(_, _)
Split(s, sep) ==
    LET k == FindFirst(s, sep)
    IN  IF k = 0 THEN <<s>>
        ELSE <<SubSeq(s, 1, k - 1)>> \o Split(SubSeq(s, k + Len(sep), Len(s)), sep)

\* s.split(sep, 1): at most one split
SplitOnce(s, sep) ==
    LET k == FindFirst(s, sep)
    IN  IF k = 0 THEN <<s>>
        ELSE <<SubSeq(s, 1, k - 1), SubSeq(s, k + Len(sep), Len(s))>>

LowerCase == <<"a","b","c","d","e","f","g","h","i","j","k","l","m",
               "n","o","p","q","r","s","t","u","v","w","x","y","z">>
UpperCase == <<"A","B","C","D","E","F","G","H","I","J","K","L","M",
               "N","O","P","Q","R","S","T","U","V","W","X","Y","Z">>

UpperChar(c) ==
    IF \E k \in 1..26 : LowerCase[k] = c
    THEN UpperCase[CHOOSE k \in 1..26 : LowerCase[k] = c]
    ELSE c

\* s.upper()
Upper(s) == [k \in DOMAIN s |-> UpperChar(s[k])]

\* "\n".join(parts)
RECURSIVE JoinLines(_)
JoinLines(parts) ==
    IF parts = <<>> THEN <<>>
    ELSE IF Len(parts) = 1 THEN parts[1]
    ELSE parts[1] \o <<"\n">> \o JoinLines(Tail(parts))

\* math.ceil(n / 2)
CeilHalf(n) == (n + 1) \div 2


(***************************************************************************)
(* Markup lines the generator is given.                                    *)
(***************************************************************************)
Blank == <<>>
TitleLine == <<"#"," ","J","o">>                            \* # Jo
ContactLine == <<"p"," ","|"," ","a","@","b">>              \* p | a@b
SectionLine == <<"#","#"," ","E","x","p">>                  \* ## Exp
SkillsHeaderLine == <<"#","#"," ","S","k","i","l","l","s">> \* ## Skills
SkillsHeaderUpper == <<"#","#"," ","S","K","I","L","L","S">> \* ## SKILLS
\* ## Technical Skills
SkillsHeaderTechnical ==
    <<"#","#"," ","T","e","c","h","n","i","c","a","l"," ","S","k","i","l","l","s">>
BulletLine == <<"-"," ","x">>                               \* - x
InstitutionLine == <<"*","I","*">>                          \* *I*
PlainLine == <<"t","x","t">>                                \* txt
ShortSkillLine == <<"*","*","K",":","*","*"," ","v">>       \* **K:** v
\* **Languages:** Python, Go
LanguagesLine ==
    <<"*","*","L","a","n","g","u","a","g","e","s",":","*","*"," ",
      "P","y","t","h","o","n",","," ","G","o">>
CloudLine == <<"*","*","C","l","o","u","d",":","*","*"," ","A","W","S">> \* **Cloud:** AWS
ToolsLine == <<"*","*","T","o","o","l","s",":","*","*"," ","G","i","t">> \* **Tools:** Git
NoColonLine == <<"*","*","M","*","*">>                      \* **M**
\* **A ||| B ||| C
TwoSentinelLine == <<"*","*","A"," ","|","|","|"," ","B"," ","|","|","|"," ","C">>
BareSentinelLine == <<"A"," ","|","|","|"," ","C">>         \* A ||| C
BulletSentinelLine == <<"-"," ","a"," ","|","|","|"," ","b">> \* - a ||| b
ProjectLine == <<"*","*","N","*","*"," ","|"," ","*","T","*">> \* **N** | *T*

\* the backquote character (a string of the module cannot hold it)
Backquote == "BACKQUOTE"

\* a bullet whose text holds a **-wrapped word and a backquoted word
MarkedBulletLine == <<"-"," ","*","*","x","*","*"," ",Backquote,"y",Backquote>>

\* **text**
Bold(text) == <<"*","*">> \o text \o <<"*","*">>
\* *text*
Emph(text) == <<"*">> \o text \o <<"*">>

\* the two-column header `**a** | b ||| c`
EntryLine(a, b, c) ==
    Bold(a) \o <<" ","|"," ">> \o b \o <<" ","|","|","|"," ">> \o c

\* the experience header `**title** | company | location ||| dates`
ExperienceLine(title, company, location, dates) ==
    Bold(title) \o <<" ","|"," ">> \o company \o <<" ","|"," ">> \o location
        \o <<" ","|","|","|"," ">> \o dates

\* the education header `**degree** ||| dates`
DegreeLine(degree, dates) ==
    Bold(degree) \o <<" ","|","|","|"," ">> \o dates

Titles == {<<"D","e","v">>}
Companies == {<<"C","o">>, <<"a","@","b">>}
Locations == {<<"N","Y">>}
PlainDates == {<<"2","0">>}
Dates == PlainDates \cup {Emph(d) : d \in PlainDates} \cup {Bold(d) : d \in PlainDates}

EntryLines ==
    {EntryLine(a, b, c) : a \in Titles, b \in Companies, c \in Dates}
    \cup {ExperienceLine(a, b, l, c) :
            a \in Titles, b \in Companies, l \in Locations, c \in Dates}
    \cup {DegreeLine(a, c) : a \in Titles, c \in Dates}

OddLines == {TwoSentinelLine, BareSentinelLine, BulletSentinelLine, ProjectLine,
             NoColonLine, MarkedBulletLine}

\* one line of each kind, combined freely into documents
GeneralLines == {Blank, TitleLine, ContactLine, SectionLine, SkillsHeaderLine,
                 EntryLine(<<"A">>, <<"B">>, <<"C">>), ShortSkillLine,
                 BulletLine, InstitutionLine, PlainLine}

SkillLines == {LanguagesLine, CloudLine, ToolsLine, NoColonLine}
SkillsHeaders == {SkillsHeaderUpper, SkillsHeaderTechnical}
AfterSkills == {<<>>, <<Blank>>, <<BulletLine>>,
                <<EntryLine(<<"A">>, <<"B">>, <<"C">>)>>}

MaxLines == 3
MaxSkills == 3

SeqsUpTo(S, n) == UNION {[1..k -> S] : k \in 0..n}

GeneralDocs == SeqsUpTo(GeneralLines, MaxLines)
SingleDocs == {<<l>> : l \in EntryLines \cup OddLines}
SkillsDocs == {<<h>> \o run \o rest :
                 h \in SkillsHeaders, run \in SeqsUpTo(SkillLines, MaxSkills),
                 rest \in AfterSkills}

Docs == GeneralDocs \cup SingleDocs \cup SkillsDocs

Variants == {"core", "backend"}

(***************************************************************************)
(* Styled blocks: what python-docx is asked to append.  A block is a       *)
(* paragraph (one row of one cell) or a table (rows of two cells); a cell  *)
(* holds the runs of its first paragraph and that paragraph's alignment.   *)
(***************************************************************************)
Run(text, bold, italic) == [text |-> text, bold |-> bold, italic |-> italic]
Cell(runs, align) == [runs |-> runs, align |-> align]
EmptyCell == Cell(<<>>, "DEFAULT")
\* `at` is the (1-based) line the block was appended for
Block(kind, at, rows, border) ==
    [kind |-> kind, at |-> at, rows |-> rows, border |-> border]
ParagraphBlock(kind, at, runs, align, border) ==
    Block(kind, at, <<<<Cell(runs, align)>>>>, border)


(***************************************************************************)
(* Classification: the if/elif chain of the scan loop, in the order the    *)
(* code tests it.                                                          *)
(***************************************************************************)
LineKind(v, line) ==
    IF line = <<>> THEN "Blank"
    ELSE IF StartsWith(line, <<"#"," ">>) THEN "Title"
    ELSE IF Contains(line, <<" ","|"," ">>) /\ Contains(line, <<"@">>)
         THEN "ContactLine"
    ELSE IF StartsWith(line, <<"#","#"," ">>)
         THEN IF Contains(Upper(line), <<"S","K","I","L","L","S">>)
              THEN "SkillsSectionHeader"
              ELSE "SectionHeader"
    ELSE IF v = "core" /\ StartsWith(line, <<"*","*">>)
                       /\ Contains(line, <<"|","|","|">>)
         THEN "EntryHeaderTwoColumn"
    ELSE IF v = "backend" /\ Contains(line, <<"|","|","|">>)
         THEN "EntryHeaderTwoColumn"
    ELSE IF v = "backend" /\ StartsWith(line, <<"*","*">>)
                          /\ Contains(line, <<"|">>)
         THEN "EntryHeaderProjectStyle"
    ELSE IF StartsWith(line, <<"-"," ">>) THEN "BulletPoint"
    ELSE IF v = "backend" THEN "PlainText"
    ELSE "Unmatched"

(***************************************************************************)
(* The skills section.                                                     *)
(***************************************************************************)
\* a gathering loop that takes every non-blank line
RECURSIVE GatherEndAny(_, _)
GatherEndAny(ls, start) ==
    IF start < Len(ls) /\ Strip(ls[start + 1]) # <<>>
    THEN GatherEndAny(ls, start + 1)
    ELSE start

\* a gathering loop that also steps over the line that stopped it
RECURSIVE GatherEndSkip(_, _)
GatherEndSkip(ls, start) ==
    IF start < Len(ls) /\ StartsWith(Strip(ls[start + 1]), <<"*","*">>)
    THEN GatherEndSkip(ls, start + 1)
    ELSE IF start < Len(ls) THEN start + 1 ELSE start

\* the gathering loop: the 0-based index at which it stops, started at `start`
RECURSIVE GatherEnd(_, _)
GatherEnd(ls, start) ==
    IF start < Len(ls) /\ StartsWith(Strip(ls[start + 1]), <<"*","*">>)
    THEN GatherEnd(ls, start + 1)
    ELSE start

\* what the loop appends to skill_lines for one line
GatheredLine(v, raw) ==
    IF v = "core" THEN Strip(raw)
    ELSE Replace(Strip(raw), <<"*","*">>, <<>>)

\* skill_lines after the gathering loop started at `start` (0-based)
GatherLines(v, ls, start) ==
    [k \in 1..(GatherEnd(ls, start) - start) |-> GatheredLine(v, ls[start + k])]

\* tuple unpacking of split(':', 1) raises ValueError without a colon
SkillLineRaises(skill_line) == Len(SplitOnce(skill_line, <<":">>)) # 2

\* the two runs written into a grid cell for one skill line
SkillCell(v, skill_line) ==
    LET parts == SplitOnce(skill_line, <<":">>)
        category == Strip(Replace(parts[1], <<"*","*">>, <<>>))
        skills == IF v = "core"
                  THEN Strip(Replace(parts[2], <<"*","*">>, <<>>))
                  ELSE Strip(parts[2])
    IN  Cell(<<Run(category \o <<":">>, TRUE, FALSE),
               Run(<<" ">> \o skills, FALSE, FALSE)>>, "DEFAULT")

\* a split at floor(n/2) instead of ceil(n/2)
SplitPointFloor(num_skills) == num_skills \div 2

\* split_point (core) / num_rows (backend)
SplitPoint(num_skills) == CeilHalf(num_skills)

\* the lines dealt out row by row (left, right, left, right, ...)
SkillIndexRowMajor(num_skills, row, col) == 2 * row + col + 1

\* index into skill_lines (1-based) of the line shown at (row, col), 0-based
\* row and col; core slices the list in two, backend adds num_rows
SkillIndex(num_skills, row, col) ==
    IF col = 0 THEN row + 1 ELSE SplitPoint(num_skills) + row + 1

\* the cells are filled row by row, left before right, up to the first
\* line that raises
FirstRaising(skill_lines) ==
    LET n == Len(skill_lines)
        order == {2 * r + c : r \in 0..(SplitPoint(n) - 1), c \in 0..1}
        bad == {o \in order :
                  LET idx == SkillIndex(n, o \div 2, o % 2)
                  IN  idx <= n /\ SkillLineRaises(skill_lines[idx])}
    IN  IF bad = {} THEN 2 * n + 2
        ELSE CHOOSE o \in bad : \A o2 \in bad : o <= o2

SkillsTableRaises(skill_lines) ==
    \E k \in DOMAIN skill_lines : SkillLineRaises(skill_lines[k])

\* the rows of the skills table (as far as it is filled when a line raises)
SkillsTableRows(v, skill_lines) ==
    LET n == Len(skill_lines)
        stop == FirstRaising(skill_lines)
        cell(r, c) ==
            LET idx == SkillIndex(n, r, c)
            IN  IF idx <= n /\ 2 * r + c < stop
                THEN SkillCell(v, skill_lines[idx])
                ELSE EmptyCell
    IN  [r \in 1..SplitPoint(n) |-> <<cell(r - 1, 0), cell(r - 1, 1)>>]

\* the blocks the skills branch appends for a header at 0-based index idx:
\* the banner for the header line, the table for the lines gathered after it
SkillsBlocks(v, ls, idx) ==
    LET skill_lines == GatherLines(v, ls, idx + 1)
        banner == ParagraphBlock("SectionBanner", idx + 1,
                                 <<Run(<<"S","K","I","L","L","S">>, TRUE, FALSE)>>,
                                 "DEFAULT", TRUE)
    IN  IF skill_lines = <<>> THEN <<banner>>
        ELSE <<banner,
               Block("SkillsGrid", idx + 2, SkillsTableRows(v, skill_lines), FALSE)>>

(***************************************************************************)
(* The two-column entry header.                                            *)
(***************************************************************************)
\* [p.strip() for p in line.split('|||')]
SentinelParts(line) ==
    LET raw == Split(line, <<"|","|","|">>)
    IN  [k \in DOMAIN raw |-> Strip(raw[k])]

\* unpacking into (left_content, right_content) raises unless there are two
EntryRaises(line) == Len(SentinelParts(line)) # 2

\* the runs of the left cell: parts[0] bold, then " | " + parts[1]
LeftRuns(left_content) ==
    LET cleaned_left == Strip(Replace(left_content, <<"*","*">>, <<>>))
        parts == Split(cleaned_left, <<"|">>)
    IN  IF Len(parts) > 1
        THEN <<Run(Strip(parts[1]), TRUE, FALSE),
               Run(<<" ","|"," ">> \o Strip(parts[2]), FALSE, FALSE)>>
        ELSE <<Run(Strip(parts[1]), TRUE, FALSE)>>

\* is_italic of the core variant
IsItalic(right_content) ==
    StartsWith(right_content, <<"*">>) /\ EndsWith(right_content, <<"*">>)

\* the run of the right cell
RightRun(v, right_content) ==
    IF v = "core"
    THEN Run(Strip(Replace(Replace(right_content, <<"*","*">>, <<>>),
                           <<"*">>, <<>>)),
             FALSE, IsItalic(right_content))
    ELSE Run(Strip(right_content), FALSE, FALSE)

EntryRows(v, line) ==
    IF EntryRaises(line) THEN <<<<EmptyCell, EmptyCell>>>>
    ELSE LET sp == SentinelParts(line)
         IN  <<<<Cell(LeftRuns(sp[1]), "DEFAULT"),
                 Cell(<<RightRun(v, sp[2])>>, "RIGHT")>>>>

(***************************************************************************)
(* The other branches.                                                     *)
(***************************************************************************)
TitleRuns(line) == <<Run(Replace(line, <<"#"," ">>, <<>>), FALSE, FALSE)>>

SectionRuns(line) ==
    <<Run(Upper(Replace(line, <<"#","#"," ">>, <<>>)), TRUE, FALSE)>>

\* backend only: `**name** | *tech*`
ProjectRuns(line) ==
    LET parts == Split(line, <<"|">>)
        first == Run(Strip(Replace(parts[1], <<"*","*">>, <<>>)), TRUE, FALSE)
    IN  IF Len(parts) > 1
        THEN <<first, Run(<<" ","|"," ">>, FALSE, FALSE),
               Run(Strip(Replace(parts[2], <<"*">>, <<>>)), FALSE, TRUE)>>
        ELSE <<first>>

\* p.text = line[2:]
BulletRuns(line) == <<Run(SubSeq(line, 3, Len(line)), FALSE, FALSE)>>

\* backend only: the default handler's test for an emphasised line
IsWrapped(line) == StartsWith(line, <<"*">>) /\ EndsWith(line, <<"*">>)

\* backend only: Paragraph has no add_paragraph, so the literal branch raises
\* AttributeError after the empty paragraph was appended
DefaultRaises(line) == ~IsWrapped(line)

DefaultRuns(line) ==
    IF IsWrapped(line)
    THEN <<Run(Replace(line, <<"*">>, <<>>), FALSE, TRUE)>>
    ELSE <<>>


(***************************************************************************)
(* MarkdownFormattingAgent.  A dict is the sequence of its (key, value)    *)
(* pairs in insertion order; None is <<>> and a string s is <<s>> where a  *)
(* value may be either.                                                    *)
(***************************************************************************)
HasKey(d, key) == \E k \in DOMAIN d : d[k][1] = key

\* d.get(key, default)
DictGet(d, key, default) ==
    IF HasKey(d, key)
    THEN d[CHOOSE k \in DOMAIN d : d[k][1] = key][2]
    ELSE default

\* sep.join(parts)
RECURSIVE JoinWith(_, _)
JoinWith(sep, parts) ==
    IF parts = <<>> THEN <<>>
    ELSE IF Len(parts) = 1 THEN parts[1]
    ELSE parts[1] \o sep \o JoinWith(sep, Tail(parts))

\* a.extend(b) for lists of lists
RECURSIVE Flatten(_)
Flatten(lists) ==
    IF lists = <<>> THEN <<>> ELSE Head(lists) \o Flatten(Tail(lists))

\* a filter that drops None only
FieldNotNone(field) == field # <<>>

\* truth value of a contact field: None and '' are dropped by filter(None, .)
FieldTruthy(field) == field # <<>> /\ field[1] # <<>>

\* _format_contact
format_contact(contact) ==
    LET parts == <<DictGet(contact, "phone", <<>>),
                   DictGet(contact, "github", <<>>),
                   DictGet(contact, "linkedin", <<>>),
                   DictGet(contact, "email", <<>>)>>
        kept == SelectSeq(parts, FieldTruthy)
    IN  JoinWith(<<" ","|"," ">>, [k \in DOMAIN kept |-> kept[k][1]])

\* item.get(key) without a default: an absent key is rendered as None
ItemGetNone(item, key) == DictGet(item, key, <<"N","o","n","e">>)

\* item.get(key, '')
ItemGet(item, key) == DictGet(item, key, <<>>)

\* point.replace('**', '').replace('*', '').replace(backquote, '')
CleanPoint(point) ==
    Replace(Replace(Replace(point, <<"*","*">>, <<>>), <<"*">>, <<>>),
            <<Backquote>>, <<>>)

\* the header line of one experience or project item
ItemHeader(item, is_project) ==
    IF is_project
    THEN Bold(ItemGet(item, "name")) \o <<" ","|"," ">>
            \o Emph(ItemGet(item, "technologies"))
    ELSE Bold(ItemGet(item, "title")) \o <<" ","|"," ">> \o ItemGet(item, "company")
            \o <<" ","|"," ">> \o ItemGet(item, "location")
            \o <<" ","|","|","|"," ">> \o ItemGet(item, "dates")

\* the lines of one item: header, one bullet per point, a blank line
ItemLines(item, is_project) ==
    LET points == DictGet(item, IF is_project THEN "description"
                                ELSE "responsibilities", <<>>)
    IN  <<ItemHeader(item, is_project)>>
        \o [k \in DOMAIN points |-> <<"-"," ">> \o CleanPoint(points[k])]
        \o <<Blank>>

\* _format_experience_or_projects
format_experience_or_projects(title, items, is_project) ==
    <<<<"#","#"," ">> \o title>>
    \o Flatten([k \in DOMAIN items |-> ItemLines(items[k], is_project)])

\* the line of one skills category
SkillsLine(category, skill_list) ==
    Bold(category \o <<":">>) \o <<" ">> \o JoinWith(<<","," ">>, skill_list)

\* every category gets a line
CategoryKeptAlways(entry) == TRUE

\* `if skill_list:`
CategoryKept(entry) == entry[2] # <<>>

\* _format_skills: one line per category whose list is not empty
format_skills(skills) ==
    LET kept == SelectSeq(skills, CategoryKept)
    IN  <<<<"#","#"," ","S","k","i","l","l","s">>>>
        \o [k \in DOMAIN kept |-> SkillsLine(kept[k][1], kept[k][2])]

\* the lines of one education item
EducationLines(item) ==
    <<Bold(ItemGet(item, "degree")) \o <<" ","|","|","|"," ">> \o ItemGet(item, "dates"),
      Emph(ItemGet(item, "institution")),
      Blank>>

\* _format_education
format_education(items) ==
    <<<<"#","#"," ","E","d","u","c","a","t","i","o","n">>>>
    \o Flatten([k \in DOMAIN items |-> EducationLines(items[k])])

\* a section is emitted whenever its key is there
SectionPresentIfKey(tailored, key) == HasKey(tailored, key)

\* `if tailored_content.get(key):` an absent key, an empty list and an empty
\* dict are all false
SectionPresent(tailored, key) == DictGet(tailored, key, <<>>) # <<>>

\* run: resume_parts before the join
resume_parts_of(profile, tailored) ==
    <<<<"#"," ">> \o DictGet(profile, "name", <<"U","s","e","r"," ","N","a","m","e">>),
      format_contact(DictGet(profile, "contact", <<>>)),
      Blank>>
    \o (IF SectionPresent(tailored, "tailored_skills")
        THEN format_skills(DictGet(tailored, "tailored_skills", <<>>)) \o <<Blank>>
        ELSE <<>>)
    \o (IF SectionPresent(tailored, "tailored_experience")
        THEN format_experience_or_projects(
                 <<"E","x","p","e","r","i","e","n","c","e">>,
                 DictGet(tailored, "tailored_experience", <<>>), FALSE)
        ELSE <<>>)
    \o (IF SectionPresent(tailored, "tailored_projects")
        THEN format_experience_or_projects(
                 <<"P","r","o","j","e","c","t","s">>,
                 DictGet(tailored, "tailored_projects", <<>>), TRUE)
        ELSE <<>>)
    \o (IF SectionPresent(tailored, "education")
        THEN format_education(DictGet(tailored, "education", <<>>))
        ELSE <<>>)

\* run: "\n".join(resume_parts).strip()
agent_run(profile, tailored) == Strip(JoinLines(resume_parts_of(profile, tailored)))

(***************************************************************************)
(* The generator object and one call of to_docx.                           *)
(***************************************************************************)
VARIABLES
    variant,    \* which PdfDocxGenerator: "core" or "backend"
    markdown,   \* self.markdown
    font_name,  \* self.font_name, "" while no generator is constructed
    pc,         \* "new": constructed; "scan": in the loop; "done": saved;
                \* "raised": to_docx left by an exception
    lines,      \* self.markdown.split('\n')
    i,          \* the loop index (0-based, as in the code)
    doc,        \* the blocks appended to the Document so far
    line_kind,  \* for each line (1-based) the branch that consumed it,
                \* "" while the scan has not reached it
    saved,      \* what doc.save(output_path) wrote at the caller's DOCX
                \* path; <<>> before
    user_profile,     \* MarkdownFormattingAgent.run: its first argument
    tailored_content, \* MarkdownFormattingAgent.run: its second argument
    resume_parts,     \* MarkdownFormattingAgent.run: the list before the join
    caller,     \* who drives the generator: "main" (to_docx, then to_pdf)
                \* or "direct" (to_pdf alone)
    stage,      \* "to_docx": the caller's to_docx call; "call_to_pdf": about
                \* to call to_pdf; "to_pdf": inside to_pdf; "returned":
                \* to_pdf returned; "reported": main logged its success;
                \* "failed": an exception left the caller;
                \* "escaped": an exception left to_pdf
    exc,        \* the exception in flight or last handled, "" if none
    files,      \* the paths that exist
    temp_docx,  \* the content of temp_resume.docx; <<>> before
    pdf,        \* the content of the PDF; <<>> before
    log         \* the logging records, oldest first

agent_vars == <<user_profile, tailored_content, resume_parts>>

export_vars == <<caller, stage, exc, files, temp_docx, pdf, log>>

vars == <<variant, markdown, font_name, pc, lines, i, doc, line_kind, saved,
          agent_vars, export_vars>>

Log(level, msg) == [level |-> level, msg |-> msg]

\* the state of the formatting agent and of the caller while only the
\* generator is exercised
NoAgent ==
    /\ user_profile = <<>>
    /\ tailored_content = <<>>
    /\ resume_parts = <<>>

NoExport ==
    /\ caller = "main"
    /\ stage = "to_docx"
    /\ exc = ""
    /\ files = {}
    /\ temp_docx = <<>>
    /\ pdf = <<>>
    /\ log = <<>>

\* __init__: the markup is stored as one string
Init ==
    /\ variant \in Variants
    /\ markdown \in {JoinLines(d) : d \in Docs}
    /\ font_name = "Calibri"
    /\ pc = "new"
    /\ lines = <<>>
    /\ i = 0
    /\ doc = <<>>
    /\ line_kind = <<>>
    /\ saved = <<>>
    /\ NoAgent
    /\ NoExport

\* the line under the index, stripped
CurLine == Strip(lines[i + 1])

Scanning == pc = "scan" /\ i < Len(lines)

\* the exception a branch raises: the default handler calls a method the
\* paragraph does not have, the others unpack a split of the wrong length
RaisedBy(kind) == IF kind = "PlainText" THEN "AttributeError" ELSE "ValueError"

\* where to_docx is asked to save: to_pdf passes its temporary path
OutputPath == IF stage = "to_pdf" THEN "temp_docx_path" ELSE "docx_path"

\* appends the blocks, notes the branch taken for line i and moves on
Emit(kind, blocks, raises) ==
    /\ doc' = doc \o blocks
    /\ line_kind' = [line_kind EXCEPT ![i + 1] = kind]
    /\ IF raises
       THEN pc' = "raised" /\ i' = i /\ exc' = RaisedBy(kind)
       ELSE pc' = pc /\ i' = i + 1 /\ exc' = exc
    /\ UNCHANGED <<variant, font_name, markdown, lines, saved, agent_vars,
                   caller, stage, files, temp_docx, pdf, log>>

\* a document kept from the previous call
ReusedDocument == doc

\* Document(): every call of to_docx starts from an empty document
NewDocument == <<>>

\* up to the loop: Document(), margins, font, split into lines
ToDocxBegin ==
    /\ pc = "new"
    /\ pc' = "scan"
    /\ lines' = Split(markdown, <<"\n">>)
    /\ i' = 0
    /\ doc' = NewDocument
    /\ line_kind' = [k \in 1..Len(Split(markdown, <<"\n">>)) |-> ""]
    /\ log' = Append(log, Log("info", "Generating styled DOCX file"))
    /\ UNCHANGED <<variant, font_name, markdown, saved, agent_vars,
                   caller, stage, exc, files, temp_docx, pdf>>

SkipBlank ==
    /\ Scanning
    /\ LineKind(variant, CurLine) = "Blank"
    /\ Emit("Blank", <<>>, FALSE)

AddTitle ==
    /\ Scanning
    /\ LineKind(variant, CurLine) = "Title"
    /\ Emit("Title",
            <<ParagraphBlock("Heading", i + 1, TitleRuns(CurLine), "CENTER", FALSE)>>,
            FALSE)

\* the backend variant also draws the bottom border under the contact line
AddContact ==
    /\ Scanning
    /\ LineKind(variant, CurLine) = "ContactLine"
    /\ Emit("ContactLine",
            <<ParagraphBlock("ContactBar", i + 1, <<Run(CurLine, FALSE, FALSE)>>,
                             "CENTER", variant = "backend")>>,
            FALSE)

AddSection ==
    /\ Scanning
    /\ LineKind(variant, CurLine) = "SectionHeader"
    /\ Emit("SectionHeader",
            <<ParagraphBlock("SectionBanner", i + 1, SectionRuns(CurLine),
                             "DEFAULT", TRUE)>>,
            FALSE)

\* banner, gathering loop, table; the index is left on the line that stopped
\* the gathering (core: i advanced in the loop; backend: i returned)
AddSkillsSection ==
    /\ Scanning
    /\ LineKind(variant, CurLine) = "SkillsSectionHeader"
    /\ LET stop == GatherEnd(lines, i + 1)
           skill_lines == GatherLines(variant, lines, i + 1)
       IN  /\ doc' = doc \o SkillsBlocks(variant, lines, i)
           /\ line_kind' = [k \in DOMAIN line_kind |->
                              IF k = i + 1 THEN "SkillsSectionHeader"
                              ELSE IF k > i + 1 /\ k <= stop THEN "SkillsRow"
                              ELSE line_kind[k]]
           /\ IF SkillsTableRaises(skill_lines)
              THEN /\ pc' = "raised"
                   /\ i' = IF variant = "core" THEN stop ELSE i
                   /\ exc' = RaisedBy("SkillsRow")
              ELSE pc' = pc /\ i' = stop /\ exc' = exc
    /\ UNCHANGED <<variant, font_name, markdown, lines, saved, agent_vars,
                   caller, stage, files, temp_docx, pdf, log>>

AddEntryHeader ==
    /\ Scanning
    /\ LineKind(variant, CurLine) = "EntryHeaderTwoColumn"
    /\ Emit("EntryHeaderTwoColumn",
            <<Block("EntryRow", i + 1, EntryRows(variant, CurLine), FALSE)>>,
            EntryRaises(CurLine))

AddProjectHeader ==
    /\ Scanning
    /\ LineKind(variant, CurLine) = "EntryHeaderProjectStyle"
    /\ Emit("EntryHeaderProjectStyle",
            <<ParagraphBlock("ProjectHeader", i + 1, ProjectRuns(CurLine),
                             "DEFAULT", FALSE)>>,
            FALSE)

AddBullet ==
    /\ Scanning
    /\ LineKind(variant, CurLine) = "BulletPoint"
    /\ Emit("BulletPoint",
            <<ParagraphBlock("BulletPoint", i + 1, BulletRuns(CurLine),
                             "DEFAULT", FALSE)>>,
            FALSE)

\* backend: the default handler
AddDefault ==
    /\ Scanning
    /\ LineKind(variant, CurLine) = "PlainText"
    /\ Emit("PlainText",
            <<ParagraphBlock("Plain", i + 1, DefaultRuns(CurLine), "DEFAULT", FALSE)>>,
            DefaultRaises(CurLine))

\* core: no branch of the chain matches and there is no else
FallThrough ==
    /\ Scanning
    /\ LineKind(variant, CurLine) = "Unmatched"
    /\ Emit("Unmatched", <<>>, FALSE)

\* a save that does not wait for the end of the loop
LoopDoneOrNot == TRUE

\* the loop condition `i < len(lines)` has become false
LoopDone == i >= Len(lines)

\* doc.save(output_path)
Save ==
    /\ pc = "scan"
    /\ LoopDone
    /\ pc' = "done"
    /\ IF OutputPath = "docx_path"
       THEN saved' = doc /\ temp_docx' = temp_docx
       ELSE temp_docx' = doc /\ saved' = saved
    /\ files' = files \cup {OutputPath}
    /\ log' = Append(log, Log("info", "Styled DOCX generation complete."))
    /\ UNCHANGED <<variant, font_name, markdown, lines, i, doc, line_kind, agent_vars,
                   caller, stage, exc, pdf>>

Next ==
    \/ ToDocxBegin
    \/ SkipBlank
    \/ AddTitle
    \/ AddContact
    \/ AddSection
    \/ AddSkillsSection
    \/ AddEntryHeader
    \/ AddProjectHeader
    \/ AddBullet
    \/ AddDefault
    \/ FallThrough
    \/ Save

Spec == Init /\ [][Next]_vars

(***************************************************************************)
(* MarkdownFormattingAgent.run followed by to_docx on what it returned.    *)
(***************************************************************************)
MaxCategories == 2
MaxItems == 2

ContactKeys == <<"phone", "github", "linkedin", "email">>

\* "absent": no such key; "none": None; "empty": ''; "value": a text
FieldStates == {"absent", "none", "empty", "value"}

ContactText(key) ==
    CASE key = "phone" -> <<"5","5">>
      [] key = "github" -> <<"g","h">>
      [] key = "linkedin" -> <<"i","n">>
      [] OTHER -> <<"a","@","b">>

\* the contact dict in which key k is in state f[k]
ContactOf(f) ==
    LET all == [k \in 1..Len(ContactKeys) |->
                   <<ContactKeys[k],
                     IF f[ContactKeys[k]] = "none" THEN <<>>
                     ELSE IF f[ContactKeys[k]] = "empty" THEN << <<>> >>
                     ELSE <<ContactText(ContactKeys[k])>> >>]
    IN  SelectSeq(all, LAMBDA e : f[e[1]] # "absent")

ContactShapes == [{"phone", "github", "linkedin", "email"} -> FieldStates]

FullContact == ContactOf([k \in {"phone", "github", "linkedin", "email"} |-> "value"])

ProfileOf(contact) == <<<<"name", <<"J","o">>>>, <<"contact", contact>>>>

\* profiles that lack the name, the contact, or both
BareProfiles ==
    {<<>>, <<<<"name", <<"J","o">>>>>>, <<<<"contact", FullContact>>>>}

\* a dict restricted to the keys of a set, order kept
Restrict(d, keys) == SelectSeq(d, LAMBDA e : e[1] \in keys)

MarkedPoint == <<"*","*","x","*","*"," ",Backquote,"y",Backquote," ","*","z","*">>

FullExperience ==
    <<<<"title", <<"T">>>>, <<"company", <<"C">>>>, <<"location", <<"L">>>>,
      <<"dates", <<"D">>>>, <<"responsibilities", <<MarkedPoint, <<"r">>>>>>>>

FullProject ==
    <<<<"name", <<"N">>>>, <<"technologies", <<"K">>>>,
      <<"description", <<<<"d">>>>>>>>

FullEducation ==
    <<<<"degree", <<"B","S">>>>, <<"institution", <<"I">>>>, <<"dates", <<"D">>>>>>

KeysOf(d) == {d[k][1] : k \in DOMAIN d}

\* every record obtained by dropping keys of a full one
Shapes(full) == {Restrict(full, keys) : keys \in SUBSET KeysOf(full)}

\* the item lists given to a section: one record of every shape, and lists
\* of up to MaxItems full records
ItemLists(full) ==
    {<<r>> : r \in Shapes(full)}
    \cup {[k \in 1..n |-> full] : n \in 1..MaxItems}

Categories == {<<"L","a">>, <<"T","o">>, <<"C","l">>}

SkillLists == {<<>>, <<<<"P","y">>>>, <<<<"P","y">>, <<"G","o">>>>}

\* dicts of at most MaxCategories categories, every iteration order
SkillDicts ==
    {d \in SeqsUpTo(Categories \X SkillLists, MaxCategories) :
        \A j, k \in DOMAIN d : j # k => d[j][1] # d[k][1]}

FullSkills == <<<<<<"L","a">>, <<<<"P","y">>>>>>, <<<<"T","o">>, <<<<"G","o">>>>>>>>

\* tailored_skills whose only category has no skill
HollowSkills == <<<<<<"L","a">>, <<>>>>>>

\* the tailored content in which each section is in the given state:
\* "absent" (no key), "empty" (an empty value), "hollow" (skills only:
\* categories without skills) or "filled"
TailoredOf(skills, experience, projects, education) ==
    (IF skills = "absent" THEN <<>>
     ELSE <<<<"tailored_skills",
              IF skills = "empty" THEN <<>>
              ELSE IF skills = "hollow" THEN HollowSkills ELSE FullSkills>>>>)
    \o (IF experience = "absent" THEN <<>>
        ELSE <<<<"tailored_experience",
                 IF experience = "empty" THEN <<>> ELSE <<FullExperience>>>>>>)
    \o (IF projects = "absent" THEN <<>>
        ELSE <<<<"tailored_projects",
                 IF projects = "empty" THEN <<>> ELSE <<FullProject>>>>>>)
    \o (IF education = "absent" THEN <<>>
        ELSE <<<<"education",
                 IF education = "empty" THEN <<>> ELSE <<FullEducation>>>>>>)

SectionStates == {"absent", "empty", "filled"}

FullTailored == TailoredOf("filled", "filled", "filled", "filled")

\* a tailored content with a headline, an experience item and skills
HeadlinedTailored ==
    <<<<"headline", <<"A","I">>>>,
      <<"tailored_experience", <<FullExperience>>>>,
      <<"tailored_skills", FullSkills>>>>

\* the inputs of run: every contact shape, the bare profiles, every
\* combination of section states, every skills dict, every record shape
AgentInputs ==
    {<<ProfileOf(ContactOf(f)), FullTailored>> : f \in ContactShapes}
    \cup {<<p, FullTailored>> : p \in BareProfiles}
    \cup {<<ProfileOf(FullContact), HeadlinedTailored>>}
    \cup {<<ProfileOf(FullContact), TailoredOf(sk, ex, pr, ed)>> :
            sk \in SectionStates \cup {"hollow"}, ex \in SectionStates,
            pr \in SectionStates, ed \in SectionStates}
    \cup {<<ProfileOf(FullContact), <<<<"tailored_skills", d>>>>>> : d \in SkillDicts}
    \cup {<<ProfileOf(FullContact), <<<<"tailored_experience", items>>>>>> :
            items \in ItemLists(FullExperience)}
    \cup {<<ProfileOf(FullContact), <<<<"tailored_projects", items>>>>>> :
            items \in ItemLists(FullProject)}
    \cup {<<ProfileOf(FullContact), <<<<"education", items>>>>>> :
            items \in ItemLists(FullEducation)}

AgentInit ==
    /\ variant \in Variants
    /\ \E input \in AgentInputs :
          /\ user_profile = input[1]
          /\ tailored_content = input[2]
    /\ resume_parts = <<>>
    /\ markdown = <<>>
    /\ font_name = ""
    /\ pc = "agent"
    /\ lines = <<>>
    /\ i = 0
    /\ doc = <<>>
    /\ line_kind = <<>>
    /\ saved = <<>>
    /\ NoExport

\* run, then PdfDocxGenerator(markdown_content=markdown_resume)
AgentRun ==
    /\ pc = "agent"
    /\ resume_parts' = resume_parts_of(user_profile, tailored_content)
    /\ markdown' = agent_run(user_profile, tailored_content)
    /\ font_name' = "Calibri"
    /\ pc' = "new"
    /\ UNCHANGED <<variant, lines, i, doc, line_kind, saved,
                   user_profile, tailored_content, export_vars>>

AgentNext ==
    \/ AgentRun
    \/ ToDocxBegin
    \/ SkipBlank
    \/ AddTitle
    \/ AddContact
    \/ AddSection
    \/ AddSkillsSection
    \/ AddEntryHeader
    \/ AddProjectHeader
    \/ AddBullet
    \/ AddDefault
    \/ FallThrough
    \/ Save

AgentSpec == AgentInit /\ [][AgentNext]_vars

(***************************************************************************)
(* The export sequence: main calls to_docx and then to_pdf; to_pdf runs    *)
(* to_docx again on a temporary path and hands the file to convert.        *)
(***************************************************************************)
MaxExportLines == 2

\* the markup exported: short documents over every kind of line
ExportDocs ==
    SeqsUpTo(GeneralLines, MaxExportLines)
    \cup {<<l>> : l \in OddLines}
    \cup {<<SkillsHeaderUpper, LanguagesLine>>, <<SkillsHeaderUpper, NoColonLine>>}

Callers == {"main", "direct"}

ExportInit ==
    /\ variant \in Variants
    /\ markdown \in {JoinLines(d) : d \in ExportDocs}
    /\ font_name = "Calibri"
    /\ caller \in Callers
    /\ stage = IF caller = "main" THEN "to_docx" ELSE "call_to_pdf"
    /\ pc = IF caller = "main" THEN "new" ELSE "idle"
    /\ lines = <<>>
    /\ i = 0
    /\ doc = <<>>
    /\ line_kind = <<>>
    /\ saved = <<>>
    /\ NoAgent
    /\ exc = ""
    /\ files = {}
    /\ temp_docx = <<>>
    /\ pdf = <<>>
    /\ log = <<>>

\* a caller that goes on to to_pdf however to_docx ended
DocxStepAny == pc \in {"done", "raised"}

\* main reaches its to_pdf call only when to_docx returned: it has no
\* handler, so a raise leaves main before that line
DocxStepReturned == pc = "done"

\* a handler for the conversion's own error only
CaughtConversionOnly(e) == e = "ConversionError"

\* `except Exception` takes every exception of the try block
Caught(e) == e \in {"ValueError", "AttributeError", "ConversionError"}

\* a to_pdf that leaves its temporary files behind
NothingCleanedUp == files

\* leaving the with block removes the temporary directory and what is in it
CleanedUp == files \ {"temp_dir", "temp_docx_path"}

\* the except block: two error records, then the with block is left
HandleInToPdf(e) ==
    /\ exc' = e
    /\ files' = CleanedUp
    /\ temp_docx' = <<>>
    /\ IF Caught(e)
       THEN /\ stage' = "returned"
            /\ log' = log \o <<Log("error", "An error occurred during PDF conversion"),
                               Log("error", "Please ensure Microsoft Word or LibreOffice is installed.")>>
       ELSE /\ stage' = "escaped"
            /\ log' = log

\* to_pdf up to its call of to_docx: the temporary directory is made
ToPdfBegin ==
    /\ \/ caller = "main" /\ stage = "to_docx" /\ DocxStepReturned
       \/ stage = "call_to_pdf"
    /\ stage' = "to_pdf"
    /\ pc' = "new"
    /\ files' = files \cup {"temp_dir"}
    /\ log' = Append(log, Log("info", "Generating high-fidelity PDF"))
    /\ UNCHANGED <<variant, font_name, markdown, lines, i, doc, line_kind, saved,
                   agent_vars, caller, exc, temp_docx, pdf>>

\* a to_pdf that goes on to convert however its to_docx ended
ConvertReachedAnyway == pc \in {"done", "raised"}

\* the convert line is reached when to_docx(temp_docx_path) returned
ConvertReached == pc = "done"

\* convert(temp_docx_path, output_path) writes the PDF
ConvertSucceeds ==
    /\ stage = "to_pdf"
    /\ ConvertReached
    /\ pdf' = temp_docx
    /\ files' = CleanedUp \cup {"pdf_path"}
    /\ temp_docx' = <<>>
    /\ log' = Append(log, Log("info", "High-fidelity PDF generation complete."))
    /\ stage' = "returned"
    /\ UNCHANGED <<variant, font_name, markdown, pc, lines, i, doc, line_kind, saved,
                   agent_vars, caller, exc>>

\* convert raises: no office application, or the conversion itself fails
ConvertFails ==
    /\ stage = "to_pdf"
    /\ ConvertReached
    /\ HandleInToPdf("ConversionError")
    /\ UNCHANGED <<variant, font_name, markdown, pc, lines, i, doc, line_kind, saved,
                   agent_vars, caller, pdf>>

\* to_docx raised inside the try block of to_pdf
ToPdfCatch ==
    /\ stage = "to_pdf"
    /\ pc = "raised"
    /\ HandleInToPdf(exc)
    /\ UNCHANGED <<variant, font_name, markdown, pc, lines, i, doc, line_kind, saved,
                   agent_vars, caller, pdf>>

\* main after to_pdf returned
MainReport ==
    /\ caller = "main"
    /\ stage = "returned"
    /\ stage' = "reported"
    /\ log' = Append(log, Log("info", "Successfully created resumes"))
    /\ UNCHANGED <<variant, font_name, markdown, pc, lines, i, doc, line_kind, saved,
                   agent_vars, caller, exc, files, temp_docx, pdf>>

\* main has no handler around to_docx: its exception ends main
MainFails ==
    /\ caller = "main"
    /\ stage = "to_docx"
    /\ pc = "raised"
    /\ stage' = "failed"
    /\ UNCHANGED <<variant, font_name, markdown, pc, lines, i, doc, line_kind, saved,
                   agent_vars, caller, exc, files, temp_docx, pdf, log>>

ExportNext ==
    \/ ToDocxBegin
    \/ SkipBlank
    \/ AddTitle
    \/ AddContact
    \/ AddSection
    \/ AddSkillsSection
    \/ AddEntryHeader
    \/ AddProjectHeader
    \/ AddBullet
    \/ AddDefault
    \/ FallThrough
    \/ Save
    \/ ToPdfBegin
    \/ ConvertSucceeds
    \/ ConvertFails
    \/ ToPdfCatch
    \/ MainReport
    \/ MainFails

ExportSpec == ExportInit /\ [][ExportNext]_vars

(***************************************************************************)
(* The whole pipeline as main drives it: run, to_docx, to_pdf, report.     *)
(***************************************************************************)
\* every combination of section states, and every contact in which each
\* field is absent or a text
PipelineInputs ==
    {<<ProfileOf(FullContact), TailoredOf(sk, ex, pr, ed)>> :
        sk \in SectionStates \cup {"hollow"}, ex \in SectionStates,
        pr \in SectionStates, ed \in SectionStates}
    \cup {<<ProfileOf(ContactOf(f)), FullTailored>> :
            f \in [{"phone", "github", "linkedin", "email"} -> {"absent", "value"}]}

PipelineInit ==
    /\ variant \in Variants
    /\ \E input \in PipelineInputs :
          /\ user_profile = input[1]
          /\ tailored_content = input[2]
    /\ resume_parts = <<>>
    /\ markdown = <<>>
    /\ font_name = ""
    /\ pc = "agent"
    /\ lines = <<>>
    /\ i = 0
    /\ doc = <<>>
    /\ line_kind = <<>>
    /\ saved = <<>>
    /\ NoExport

PipelineNext ==
    \/ AgentRun
    \/ ToDocxBegin
    \/ SkipBlank
    \/ AddTitle
    \/ AddContact
    \/ AddSection
    \/ AddSkillsSection
    \/ AddEntryHeader
    \/ AddProjectHeader
    \/ AddBullet
    \/ AddDefault
    \/ FallThrough
    \/ Save
    \/ ToPdfBegin
    \/ ConvertSucceeds
    \/ ConvertFails
    \/ MainReport
    \/ MainFails

PipelineSpec == PipelineInit /\ [][PipelineNext]_vars





(***************************************************************************)
(* Properties.                                                             *)
(***************************************************************************)
Consumed(k) == k \in DOMAIN line_kind /\ line_kind[k] # ""

\* the blocks appended for line k
BlocksAt(k) == {b \in DOMAIN doc : doc[b].at = k}

\* C1: skills-grid split law.  Every skills table built from n >= 1
\* gathered lines has ceil(n/2) rows; its left column shows the first
\* ceil(n/2) lines in order, its right column the remaining floor(n/2)
\* lines in order (blank where there is none), and left column followed by
\* right column is the n lines in their original order.  Both variants.
SkillsGridSplitLaw ==
    \A b \in DOMAIN doc :
        doc[b].kind = "SkillsGrid" =>
            LET g == GatherLines(variant, lines, doc[b].at - 1)
                n == Len(g)
                rows == doc[b].rows
                m == Len(rows)
                shown == [k \in 1..n |-> SkillCell(variant, g[k])]
                left == [r \in 1..m |-> rows[r][1]]
                right == [r \in 1..(n - m) |-> rows[r][2]]
            IN  ~SkillsTableRaises(g) =>
                    /\ n >= 1
                    /\ 2 * m \in {n, n + 1}
                    /\ \A r \in 1..m : Len(rows[r]) = 2
                    /\ left = SubSeq(shown, 1, m)
                    /\ right = SubSeq(shown, m + 1, n)
                    /\ \A r \in (n - m + 1)..m : rows[r][2] = EmptyCell
                    /\ left \o right = shown

\* C1 witness: a saved backend document with a three-line grid, the right
\* cell of its last row blank
SkillsGridOddBuilt ==
    /\ pc = "done"
    /\ variant = "backend"
    /\ \E b \in DOMAIN saved :
        /\ saved[b].kind = "SkillsGrid"
        /\ Len(GatherLines(variant, lines, saved[b].at - 1)) = 3
        /\ Len(saved[b].rows) = 2
        /\ saved[b].rows[2][2] = EmptyCell
        /\ saved[b].rows[1][2] # EmptyCell


\* the markup of the end-to-end skills example
ExampleSkillsLines == <<SkillsHeaderUpper, LanguagesLine, CloudLine, ToolsLine>>

\* the position of the example in the scanned lines: a `## SKILLS` header at
\* line h immediately followed by exactly the three example lines
ExampleAt(h) ==
    /\ h + 3 <= Len(lines)
    /\ SubSeq(lines, h, h + 3) = ExampleSkillsLines
    /\ h + 4 <= Len(lines) => ~StartsWith(Strip(lines[h + 4]), <<"*","*">>)

BoldRun(text) == Run(text, TRUE, FALSE)
PlainRun(text) == Run(text, FALSE, FALSE)

LanguagesCell ==
    Cell(<<BoldRun(<<"L","a","n","g","u","a","g","e","s",":">>),
           PlainRun(<<" ","P","y","t","h","o","n",","," ","G","o">>)>>, "DEFAULT")
CloudCell ==
    Cell(<<BoldRun(<<"C","l","o","u","d",":">>), PlainRun(<<" ","A","W","S">>)>>,
         "DEFAULT")
ToolsCell ==
    Cell(<<BoldRun(<<"T","o","o","l","s",":">>), PlainRun(<<" ","G","i","t">>)>>,
         "DEFAULT")

\* the saved document holds a skills grid with these rows for the lines
\* gathered after the header at line h
SavedGridAt(h, rows) ==
    \E b \in DOMAIN saved :
        /\ saved[b].kind = "SkillsGrid"
        /\ saved[b].at = h + 1
        /\ saved[b].rows = rows

\* C2 as stated: for `## SKILLS` followed by the Languages, Cloud and Tools
\* lines the saved grid has row 0 = (Languages | Cloud) and
\* row 1 = (Tools | blank).
ExampleGridRowMajor ==
    \A h \in DOMAIN lines :
        pc = "done" /\ ExampleAt(h) =>
            SavedGridAt(h, <<<<LanguagesCell, CloudCell>>, <<ToolsCell, EmptyCell>>>>)

\* C2 amended: for `## SKILLS` followed by the Languages, Cloud and Tools
\* lines the saved grid has two rows of two cells, row 0 =
\* (Languages | Tools) and row 1 = (Cloud | blank): the first two lines go
\* down the left column, the third starts the right column.
ExampleGridColumnMajor ==
    \A h \in DOMAIN lines :
        pc = "done" /\ ExampleAt(h) =>
            SavedGridAt(h, <<<<LanguagesCell, ToolsCell>>, <<CloudCell, EmptyCell>>>>)

\* C2 witness: the core variant has saved the document of the example
ExampleGridSaved ==
    /\ pc = "done"
    /\ variant = "core"
    /\ lines = ExampleSkillsLines
    /\ ExampleAt(1)
    /\ \E b \in DOMAIN saved : saved[b].kind = "SkillsGrid" /\ Len(saved[b].rows) = 2


\* companies free of `@`, so that the line is no contact line
PlainCompanies == {c \in Companies : ~Contains(c, <<"@">>)}

\* line k went through the entry-header branch, which appended one table for it
EntryBlockAt(k) == CHOOSE b \in BlocksAt(k) : doc[b].kind = "EntryRow"

HandledAsEntry(k) ==
    /\ Consumed(k)
    /\ line_kind[k] = "EntryHeaderTwoColumn"
    /\ \E b \in BlocksAt(k) : doc[b].kind = "EntryRow"

HasStar(text) == \E k \in DOMAIN text : text[k] = "*"

\* C3: sentinel-parsing law.  For every line `**A** | B ||| C` handled as an
\* entry header, in either variant, the row has two cells; the left cell
\* holds a bold run A followed by a non-bold run ` | B`; the right cell is
\* right-aligned and shows C with every `*` removed.
SentinelParsingLaw ==
    \A k \in DOMAIN lines : \A a \in Titles, b \in PlainCompanies, d \in PlainDates :
        \A c \in {d, Emph(d), Bold(d)} :
            Strip(lines[k]) = EntryLine(a, b, c) /\ HandledAsEntry(k) =>
                LET row == doc[EntryBlockAt(k)].rows[1]
                IN  /\ Len(row) = 2
                    /\ row[1].runs = <<BoldRun(a), PlainRun(<<" ","|"," ">> \o b)>>
                    /\ row[2].align = "RIGHT"
                    /\ Len(row[2].runs) = 1
                    /\ row[2].runs[1].text = d

\* C4: the left text is split on the first single pipe only.  For the
\* experience header `**title** | company | location ||| dates` the left
\* cell shows the title bold and then the whole remainder
\* ` | company | location`; nothing of the left text is discarded.
LeftSplitOnFirstPipeOnly ==
    \A k \in DOMAIN lines :
        \A t \in Titles, co \in PlainCompanies, loc \in Locations, c \in Dates :
            Strip(lines[k]) = ExperienceLine(t, co, loc, c) /\ HandledAsEntry(k) =>
                doc[EntryBlockAt(k)].rows[1][1].runs =
                    <<BoldRun(t),
                      PlainRun(<<" ","|"," ">> \o co \o <<" ","|"," ">> \o loc)>>

\* C5: in the core variant the right-cell run of an entry header is italic
\* if and only if the right text was wrapped in single asterisks; unwrapped
\* or `**`-wrapped right text is not italic; no `*` stays visible.
ItalicIffSingleEmphasis ==
    \A k \in DOMAIN lines : \A a \in Titles, d \in PlainDates :
        \A c \in {d, Emph(d), Bold(d)} :
            /\ variant = "core"
            /\ Strip(lines[k]) = DegreeLine(a, c)
            /\ HandledAsEntry(k)
            => LET run == doc[EntryBlockAt(k)].rows[1][2].runs[1]
               IN  /\ run.italic = (c = Emph(d))
                   /\ ~HasStar(run.text)

\* C6: the formatter is total: to_docx never leaves by an exception,
\* whatever the markup.
ToDocxNeverRaises == pc # "raised"

\* single-asterisk emphasis: `*text*` and not `**text**`
SingleWrapped(line) ==
    /\ Len(line) >= 2
    /\ line[1] = "*" /\ line[Len(line)] = "*"
    /\ ~StartsWith(line, <<"*","*">>)
    /\ ~EndsWith(line, <<"*","*">>)

WithoutStars(text) == SelectSeq(text, LAMBDA ch : ch # "*")

\* C7: every non-blank line that matches none of the specific rules is
\* emitted as exactly one paragraph carrying its text: an italic run without
\* the asterisks when the line is wrapped in single `*`, a literal plain
\* paragraph otherwise; it is never dropped.
UnmatchedLineEmittedAsParagraph ==
    \A k \in DOMAIN lines :
        Consumed(k) /\ line_kind[k] \in {"Unmatched", "PlainText"} =>
            /\ Cardinality(BlocksAt(k)) = 1
            /\ \A b \in BlocksAt(k) :
                /\ doc[b].kind = "Plain"
                /\ doc[b].rows[1][1].runs =
                     IF SingleWrapped(Strip(lines[k]))
                     THEN <<Run(WithoutStars(Strip(lines[k])), FALSE, TRUE)>>
                     ELSE <<PlainRun(Strip(lines[k]))>>

\* C8: every line holding the `|||` sentinel that is no title and no section
\* header is classified as a two-column entry header and rendered as a
\* one-row, two-cell table, never by another rule and never left
\* unclassified.
SentinelLineIsEntryHeader ==
    \A k \in DOMAIN lines :
        /\ Consumed(k)
        /\ Contains(Strip(lines[k]), <<"|","|","|">>)
        /\ ~StartsWith(Strip(lines[k]), <<"#"," ">>)
        /\ ~StartsWith(Strip(lines[k]), <<"#","#"," ">>)
        => /\ line_kind[k] = "EntryHeaderTwoColumn"
           /\ \E b \in BlocksAt(k) :
                /\ doc[b].kind = "EntryRow"
                /\ Len(doc[b].rows) = 1
                /\ Len(doc[b].rows[1]) = 2


\* line k starts with `**` and directly continues a run of skills rows that a
\* skills section header opened
ContinuesSkillsRun(k) ==
    /\ k > 1
    /\ StartsWith(Strip(lines[k]), <<"*","*">>)
    /\ line_kind[k - 1] \in {"SkillsSectionHeader", "SkillsRow"}

\* the kinds of the blocks appended for line k
BlockKindsAt(k) == {doc[b].kind : b \in BlocksAt(k)}

\* C9: the block kind emitted for a line is a function of the line's text
\* alone.  Two lines of one document with the same text, whatever precedes
\* or follows them, are handled by the same branch and get blocks of the
\* same kinds, unless one of them is a `**` line continuing the skills rows
\* under a skills section header; only such lines are taken as skills rows.
KindIsFunctionOfText ==
    /\ \A k \in DOMAIN lines :
        Consumed(k) /\ line_kind[k] = "SkillsRow" => ContinuesSkillsRun(k)
    /\ \A j, k \in DOMAIN lines :
        /\ Consumed(j) /\ Consumed(k)
        /\ Strip(lines[j]) = Strip(lines[k])
        /\ line_kind[j] # "SkillsRow" /\ line_kind[k] # "SkillsRow"
        => /\ line_kind[j] = line_kind[k]
           /\ BlockKindsAt(j) = BlockKindsAt(k)

\* C9 witness: a saved document in which one text was handled twice as a
\* bullet, once first in the document and once after another line
SameTextDifferentContext ==
    /\ pc = "done"
    /\ \E j, k \in DOMAIN lines :
        /\ j = 1 /\ k = 3
        /\ lines[j] = lines[k]
        /\ lines[2] # lines[1]
        /\ line_kind[2] # "Blank"
        /\ line_kind[j] = "BulletPoint"
        /\ line_kind[k] = "BulletPoint"
        /\ BlockKindsAt(j) = {"BulletPoint"}
        /\ BlockKindsAt(k) = {"BulletPoint"}


StartsBold(k) == StartsWith(Strip(lines[k]), <<"*","*">>)

\* every line from h + 1 to k starts with `**`
BoldRunFrom(h, k) == \A m \in (h + 1)..k : StartsBold(m)

\* C10: after a skills section header at line h the skills rows are exactly
\* the maximal run of directly following lines that start with `**`; the
\* first line that does not (a blank line too) is not taken as a skills row
\* and not skipped: the scan resumes on it and the normal rules classify it.
SkillsRowsAreMaximalBoldRun ==
    \A h \in DOMAIN lines :
        (Consumed(h) /\ line_kind[h] = "SkillsSectionHeader") =>
            \A k \in (h + 1)..Len(lines) :
                /\ BoldRunFrom(h, k) => (line_kind[k] = "SkillsRow")
                /\ (BoldRunFrom(h, k - 1) /\ ~StartsBold(k)) =>
                    /\ line_kind[k] # "SkillsRow"
                    /\ (line_kind[k] = "") =>
                         \/ pc \in {"scan", "raised"} /\ i = k - 1
                         \/ pc = "raised" /\ i = h - 1
                    /\ (line_kind[k] # "") =>
                         (line_kind[k] = LineKind(variant, Strip(lines[k])))

\* C10 witness: a saved document in which two skills rows were gathered and
\* the line after them, which does not start with `**`, was rendered as a
\* bullet
GatheringStoppedAtBullet ==
    /\ pc = "done"
    /\ \E h \in DOMAIN lines :
        /\ h + 3 <= Len(lines)
        /\ line_kind[h] = "SkillsSectionHeader"
        /\ line_kind[h + 1] = "SkillsRow"
        /\ line_kind[h + 2] = "SkillsRow"
        /\ line_kind[h + 3] = "BulletPoint"
        /\ BlockKindsAt(h + 3) = {"BulletPoint"}


\* to_docx was left by the exception of the skills table code: the table is
\* the last block appended
RaisedInSkillsTable ==
    /\ pc = "raised"
    /\ doc # <<>>
    /\ doc[Len(doc)].kind = "SkillsGrid"

\* C11: the skills-grid algorithm never throws.  For every run of `**`
\* lines gathered after a skills header, with or without a colon, the grid
\* is emitted, and with an odd number of lines the right cell of the last
\* row is blank.
SkillsGridNeverThrows ==
    /\ ~RaisedInSkillsTable
    /\ \A b \in DOMAIN doc :
        doc[b].kind = "SkillsGrid" =>
            LET n == Len(GatherLines(variant, lines, doc[b].at - 1))
                rows == doc[b].rows
            IN  n % 2 = 1 => rows[Len(rows)][2] = EmptyCell

\* the contact passed to _format_contact by run
RunContact == DictGet(user_profile, "contact", <<>>)

\* the contact keys that hold a text of at least one character
NonEmptyFields ==
    {key \in {"phone", "github", "linkedin", "email"} :
        \E e \in DOMAIN RunContact :
            /\ RunContact[e][1] = key
            /\ RunContact[e][2] \notin {<<>>, << <<>> >>}}

AgentRan == pc # "agent"

\* C12: the contact line is the non-empty contact fields in the order
\* phone, github, linkedin, email joined by " | ": with n non-empty fields
\* it has n - 1 delimiters and no leading, trailing or doubled one, and it
\* is empty when n = 0; absent, None and '' fields contribute nothing.
ContactLineJoinsNonEmptyFields ==
    AgentRan =>
        LET line == resume_parts[2]
            order == SelectSeq(ContactKeys, LAMBDA key : key \in NonEmptyFields)
            n == Cardinality(NonEmptyFields)
            pieces == Split(line, <<" ","|"," ">>)
        IN  /\ line = format_contact(RunContact)
            /\ n = 0 => line = <<>>
            /\ n >= 1 =>
                  /\ Len(pieces) = n
                  /\ \A j \in 1..n : pieces[j] = ContactText(order[j])
                  /\ ~StartsWith(line, <<" ","|"," ">>)
                  /\ ~EndsWith(line, <<" ","|"," ">>)
                  /\ ~Contains(line, <<" ","|"," "," ","|"," ">>)

\* witness of C12: phone and email are texts, github is '', linkedin is None
ContactSkipsEmptyFields ==
    /\ AgentRan
    /\ RunContact = ContactOf([key \in {"phone", "github", "linkedin", "email"} |->
                        CASE key = "github" -> "empty"
                          [] key = "linkedin" -> "none"
                          [] OTHER -> "value"])
    /\ resume_parts[2] = <<"5","5"," ","|"," ","a","@","b">>

\* the lines of the markdown returned by run
MarkdownLines == Split(markdown, <<"\n">>)

HasLine(line) == \E k \in DOMAIN MarkdownLines : MarkdownLines[k] = line

\* the value under a key of tailored_content is absent or empty
EmptyOrAbsent(key) ==
    \A e \in DOMAIN tailored_content :
        tailored_content[e][1] = key => tailored_content[e][2] = <<>>

SkillsBanner == <<"#","#"," ","S","k","i","l","l","s">>
ExperienceBanner == <<"#","#"," ","E","x","p","e","r","i","e","n","c","e">>
ProjectsBanner == <<"#","#"," ","P","r","o","j","e","c","t","s">>
EducationBanner == <<"#","#"," ","E","d","u","c","a","t","i","o","n">>

\* C13: omission law.  When the value under tailored_skills,
\* tailored_experience, tailored_projects or education is absent or empty,
\* the markdown returned by run has no banner line of that section.
OmissionLaw ==
    AgentRan =>
        /\ EmptyOrAbsent("tailored_skills") => ~HasLine(SkillsBanner)
        /\ EmptyOrAbsent("tailored_experience") => ~HasLine(ExperienceBanner)
        /\ EmptyOrAbsent("tailored_projects") => ~HasLine(ProjectsBanner)
        /\ EmptyOrAbsent("education") => ~HasLine(EducationBanner)

\* witness of C13: experience is an empty list, projects has no key, and
\* the two other sections are written
EmptySectionsOmitted ==
    /\ AgentRan
    /\ tailored_content = TailoredOf("filled", "empty", "absent", "filled")
    /\ HasLine(SkillsBanner)
    /\ HasLine(EducationBanner)
    /\ ~HasLine(ExperienceBanner)
    /\ ~HasLine(ProjectsBanner)

\* tailored_skills gives no skill line: no category, or only empty ones
NoSkillLines ==
    \A e \in DOMAIN tailored_content :
        tailored_content[e][1] = "tailored_skills" =>
            \A c \in DOMAIN tailored_content[e][2] :
                tailored_content[e][2][c][2] = <<>>

\* block b is the banner written for a skills heading
IsSkillsBanner(b) ==
    /\ doc[b].kind = "SectionBanner"
    /\ line_kind[doc[b].at] = "SkillsSectionHeader"

\* C14: no empty skills banner.  When tailored_skills yields no skill line
\* run emits no "## Skills" heading, and every skills banner in the
\* document is followed by a grid of at least one row.
NoEmptySkillsBanner ==
    AgentRan =>
        /\ NoSkillLines => ~HasLine(SkillsBanner)
        /\ \A b \in DOMAIN doc :
              IsSkillsBanner(b) =>
                  /\ b + 1 \in DOMAIN doc
                  /\ doc[b + 1].kind = "SkillsGrid"
                  /\ Len(doc[b + 1].rows) >= 1

\* the skills dict given to _format_skills
RunSkills == DictGet(tailored_content, "tailored_skills", <<>>)

\* the categories that have a skill, in the dict's order
FilledCategories == SelectSeq(RunSkills, LAMBDA entry : Len(entry[2]) >= 1)

Field(item, key) ==
    IF \E e \in DOMAIN item : item[e][1] = key
    THEN item[CHOOSE e \in DOMAIN item : item[e][1] = key][2]
    ELSE <<>>

ExpectedExperienceHeader(item) ==
    <<"*","*">> \o Field(item, "title") \o <<"*","*"," ","|"," ">>
    \o Field(item, "company") \o <<" ","|"," ">> \o Field(item, "location")
    \o <<" ","|","|","|"," ">> \o Field(item, "dates")

ExpectedProjectHeader(item) ==
    <<"*","*">> \o Field(item, "name") \o <<"*","*"," ","|"," ","*">>
    \o Field(item, "technologies") \o <<"*">>

ExpectedEducationHeader(item) ==
    <<"*","*">> \o Field(item, "degree") \o <<"*","*"," ","|","|","|"," ">>
    \o Field(item, "dates")

\* the header lines of resume_parts: bold-led lines other than skills lines
\* and bare institution lines
HeaderLines ==
    SelectSeq(resume_parts,
              LAMBDA l : /\ StartsWith(l, <<"*","*">>)
                         /\ Len(l) > 2
                         /\ ~Contains(l, <<":","*","*">>))

ExpectedHeaders ==
    LET ex == DictGet(tailored_content, "tailored_experience", <<>>)
        pr == DictGet(tailored_content, "tailored_projects", <<>>)
        ed == DictGet(tailored_content, "education", <<>>)
    IN  [k \in DOMAIN ex |-> ExpectedExperienceHeader(ex[k])]
        \o [k \in DOMAIN pr |-> ExpectedProjectHeader(pr[k])]
        \o [k \in DOMAIN ed |-> ExpectedEducationHeader(ed[k])]

\* C16: missing fields never raise.  Whatever keys the experience, project
\* and education records lack, run returns the joined lines, and the header
\* lines of the result are one per record, in order, with '' in the place
\* of every absent text field.
MissingFieldsDefaultToEmpty ==
    AgentRan =>
        /\ markdown = Strip(JoinLines(resume_parts))
        /\ HeaderLines = ExpectedHeaders

\* witness of C16: an experience record that has a company and nothing else
HeaderOfCompanyOnlyRecord ==
    /\ AgentRan
    /\ DictGet(tailored_content, "tailored_experience", <<>>)
           = <<<<<<"company", <<"C">>>>>>>>
    /\ HeaderLines = <<<<"*","*","*","*"," ","|"," ","C"," ","|"," "," ","|","|","|"," ">>>>

\* C17: bullet sanitization.  The text of every rendered list item holds
\* no `*` and no backquote.
BulletTextHasNoMarkers ==
    \A b \in DOMAIN doc :
        doc[b].kind = "BulletPoint" =>
            \A r \in DOMAIN doc[b].rows[1][1].runs :
                /\ ~Contains(doc[b].rows[1][1].runs[r].text, <<"*">>)
                /\ ~Contains(doc[b].rows[1][1].runs[r].text, <<Backquote>>)

ErrorLogged == \E k \in DOMAIN log : log[k].level = "error"

\* C18: when convert raises, to_pdf logs the failure and hands it to its
\* caller as a failure: to_pdf does not return normally, and main does not
\* go on to log that the PDF was created.
ConversionFailureSurfaced ==
    exc = "ConversionError" =>
        /\ ErrorLogged
        /\ stage \notin {"returned", "reported"}

\* C19: every exception raised inside to_pdf, by the temporary DOCX
\* generation or by convert, is caught and logged inside to_pdf: none
\* leaves to_pdf, and when to_pdf has returned after one, the log holds an
\* error record and the temporary directory is gone.
ToPdfCatchesEveryException ==
    /\ stage # "escaped"
    /\ (stage \in {"returned", "reported"} /\ exc # "") =>
          /\ ErrorLogged
          /\ "temp_dir" \notin files
          /\ "pdf_path" \notin files

\* witness of C19: to_pdf, called on its own, returned after its to_docx
\* raised on a skills line without a colon
ToPdfReturnedAfterDocxError ==
    /\ caller = "direct"
    /\ stage = "returned"
    /\ exc = "ValueError"
    /\ pc = "raised"
    /\ ErrorLogged

InPdfStep == stage \in {"to_pdf", "returned", "reported", "escaped"}

ToPdfReturned == stage \in {"returned", "reported"}

\* C21: temporary storage of to_pdf is released on every path.  Once
\* to_pdf has returned, after a successful conversion or after a failure of
\* any step inside it, neither the temporary directory nor temp_resume.docx
\* exists.
TempStorageReleased ==
    ToPdfReturned =>
        /\ "temp_dir" \notin files
        /\ "temp_docx_path" \notin files
        /\ temp_docx = <<>>

\* witness of C21: the backend's to_docx raised inside to_pdf after the
\* directory was made, and to_pdf has returned
TempReleasedAfterFailure ==
    /\ ToPdfReturned
    /\ exc = "AttributeError"
    /\ \E k \in DOMAIN log : log[k].msg = "Generating high-fidelity PDF"
    /\ files = {}

AllLinesConsumed == \A k \in DOMAIN lines : Consumed(k)

\* C22: no partially written editable artifact.  to_docx writes to
\* output_path in one step only, after every line of the markup has been
\* processed, and what it writes is the whole document; while the scan
\* runs and after a line raised, nothing has been written to output_path.
DocxWrittenOnlyWhenComplete ==
    /\ [](pc \in {"new", "scan", "raised"} => saved = <<>> /\ files = {})
    /\ [][(saved' # saved \/ files' # files) =>
            /\ pc = "scan" /\ pc' = "done"
            /\ AllLinesConsumed
            /\ i = Len(lines)
            /\ saved' = doc
            /\ files' = {"docx_path"}]_vars

\* witness of C22: the second line raised after the first had been
\* rendered, and no file exists
RaisedWithBlocksAndNoFile ==
    /\ pc = "raised"
    /\ Len(doc) >= 1
    /\ Consumed(1)
    /\ i >= 1
    /\ files = {}

\* the log record of a completed to_docx comes after to_pdf's own first one
DocxCompletedInThisCall ==
    \E j, k \in DOMAIN log :
        /\ j < k
        /\ log[j].msg = "Generating high-fidelity PDF"
        /\ log[k].msg = "Styled DOCX generation complete."

\* C23: the PDF depends only on an editable document.  convert runs only
\* after to_docx has completed in the same call of to_pdf, its input is the
\* DOCX that call wrote to the temporary path, and a PDF exists only as the
\* result of such a step.
PdfOnlyFromDocx ==
    /\ []("pdf_path" \in files =>
            /\ DocxCompletedInThisCall
            /\ pc = "done"
            /\ pdf = doc)
    /\ [][(pdf' # pdf \/ ("pdf_path" \in files' /\ "pdf_path" \notin files)) =>
            /\ stage = "to_pdf"
            /\ pc = "done"
            /\ "temp_docx_path" \in files
            /\ temp_docx = doc
            /\ pdf' = temp_docx]_vars

\* witness of C23: a PDF made from a temporary DOCX of at least one block
PdfMadeFromTempDocx ==
    /\ "pdf_path" \in files
    /\ stage = "returned"
    /\ pdf = doc
    /\ Len(pdf) >= 1

RunHeadline == DictGet(tailored_content, "headline", <<>>)

\* C25: when the tailored content has a non-empty headline, the markdown
\* returned by run has the line `### <headline>`.
HeadlineLineEmitted ==
    (AgentRan /\ RunHeadline # <<>>) =>
        HasLine(<<"#","#","#"," ">> \o RunHeadline)

RunExperience == DictGet(tailored_content, "tailored_experience", <<>>)

BulletLinesOfMarkdown ==
    SelectSeq(MarkdownLines, LAMBDA l : StartsWith(l, <<"-"," ">>))

\* the number of points under a key, over the items of a list
RECURSIVE PointCount(_, _)
PointCount(items, key) ==
    IF items = <<>> THEN 0
    ELSE Len(DictGet(Head(items), key, <<>>)) + PointCount(Tail(items), key)

\* C26: when tailored_experience is not empty, the markdown has the banner
\* line `## Work Experience`, for each item a header holding
\* `**<title>** | <company>`, and one `- <text>` line per responsibility.
WorkExperienceSection ==
    (AgentRan /\ RunExperience # <<>>) =>
        /\ HasLine(<<"#","#"," ","W","o","r","k"," ">>
                   \o <<"E","x","p","e","r","i","e","n","c","e">>)
        /\ \A k \in DOMAIN RunExperience :
              \E l \in DOMAIN MarkdownLines :
                  Contains(MarkdownLines[l],
                           <<"*","*">> \o Field(RunExperience[k], "title")
                           \o <<"*","*"," ","|"," ">>
                           \o Field(RunExperience[k], "company"))
        /\ Len(BulletLinesOfMarkdown)
              = PointCount(RunExperience, "responsibilities")
                + PointCount(DictGet(tailored_content, "tailored_projects", <<>>),
                             "description")

\* C27: for every category with a non-empty list the markdown has the
\* `## Skills` banner and the line `**<category>**: <skills joined by ", ">`,
\* the colon outside the bold markers.
SkillsLineColonOutsideBold ==
    AgentRan =>
        \A j \in DOMAIN FilledCategories :
            /\ HasLine(SkillsBanner)
            /\ HasLine(<<"*","*">> \o FilledCategories[j][1] \o <<"*","*",":"," ">>
                       \o JoinWith(<<","," ">>, FilledCategories[j][2]))

\* C28: a skills section header gets the banner of any section header.
\* The banner written for a `## ` line that contains SKILLS is one bold run
\* of the line's own header text in upper case, with the bottom border.
SkillsBannerShowsOwnHeader ==
    \A b \in DOMAIN doc :
        IsSkillsBanner(b) =>
            LET line == Strip(lines[doc[b].at])
                runs == doc[b].rows[1][1].runs
            IN  /\ doc[b].border
                /\ Len(runs) = 1
                /\ runs[1].bold
                /\ runs[1].text = Upper(SubSeq(line, 4, Len(line)))

\* C29: agent-to-generator completeness (core variant).  When to_docx has
\* saved the document of a markdown returned by run, every non-blank line
\* was taken by a branch that renders it: none fell through the chain.
EveryAgentLineRendered ==
    (AgentRan /\ variant = "core" /\ pc = "done") =>
        \A k \in DOMAIN lines :
            Strip(lines[k]) # <<>> =>
                /\ line_kind[k] \notin {"", "Unmatched"}
                /\ (line_kind[k] # "SkillsRow" => BlocksAt(k) # {})

\* C30: the scan covers the input exactly once.  While the loop runs the
\* lines consumed are exactly those before the index; every step of the
\* loop moves the index forward and consumes exactly the lines it passes,
\* without touching a line consumed before; the loop is left for the save
\* with the index equal to the number of lines; and when the scan has
\* ended every line has been consumed.
ScanCoversInputOnce ==
    /\ [](pc = "scan" => \A k \in DOMAIN lines : Consumed(k) <=> k <= i)
    /\ [](pc = "done" => i = Len(lines))
    /\ [](pc \in {"done", "raised"} => AllLinesConsumed)
    /\ [][(pc = "scan" /\ pc' = "scan") =>
            /\ i' > i
            /\ \A k \in DOMAIN lines :
                  /\ Consumed(k) => line_kind'[k] = line_kind[k]
                  /\ (k > i /\ k <= i') <=> (~Consumed(k) /\ line_kind'[k] # "")]_vars

====
